---- MODULE Spec2Model ----
(***************************************************************************)
(* Model of the freqiterator crate (src/src/lib.rs): FreqGenerator, an     *)
(* equal-tempered frequency iterator, ScaleGenerator, the diatonic filter  *)
(* over it, and Key / Mode, which pick the starting pitch and the rotation.*)
(*                                                                         *)
(* A pitch value (the generic float T) is a fixed-point number: an integer *)
(* count of 1/Unit Hz.  The step ratio 2^(1/scale) is a fixed-point number *)
(* in 1/RatioUnit, which is about the relative precision of an f32.  The   *)
(* IEEE value +inf is the value Inf.                                       *)
(***************************************************************************)
EXTENDS Integers, Sequences, FiniteSets, TLC

\* ---------------------------------------------------------------- bounds
\* calls the caller makes on a bare FreqGenerator stream
MaxFgCalls == 48
\* calls the caller makes on a ScaleGenerator
MaxSgCalls == 30
\* largest n of a .skip(n) put on the FreqGenerator before wrapping
MaxSkip == 5
\* largest n of a .take(n) put on the FreqGenerator before wrapping
MaxTake == 3
\* no call is started on a stream whose frequency is above this (1/Unit Hz)
MaxFreq == 100000000

\* ------------------------------------------------------- the float type T
\* fixed-point denominators of a pitch value and of a step ratio
Unit == 10000
RatioUnit == 1000000
\* IEEE +inf, what 1 / 0 and everything computed from it evaluate to
Inf == -1

\* pub const A0: f32 = 27.5
A0 == 275000

\* Option<T>
None == <<>>
Some(v) == <<v>>

\* (2).pow(1 / scale), rounded to 1/RatioUnit; 1 / 0 is +inf and 2^inf = +inf
StepRatio(scale) ==
    CASE scale = 0 -> Inf
      [] scale = 1 -> 2000000
      [] scale = 2 -> 1414214
      [] scale = 3 -> 1259921
      [] scale = 4 -> 1189207
      [] scale = 6 -> 1122462
      [] scale = 12 -> 1059463

\* freq * ratio, rounded to the nearest 1/Unit Hz (freq > 0; x * inf = inf).
\* The product is taken in halves of three decimal digits to stay in range.
Mul(f, r) ==
    IF f = Inf \/ r = Inf THEN Inf
    ELSE LET a == f \div 1000
             b == f % 1000
             c == r \div 1000
             d == r % 1000
             m == a * d + b * c
         IN a * c + (m \div 1000)
              + (((m % 1000) * 1000 + b * d + (RatioUnit \div 2)) \div RatioUnit)

\* f32::round / f64::round of a positive value, in Hz
Round(f) == (f + (Unit \div 2)) \div Unit

\* tone counts the streams are built with (0 is the divisor of 1 / scale)
ToneCounts == {0, 1, 2, 3, 4, 6, 12}
Seeds == {A0, 2 * A0}

\* ------------------------------------------------------------- Mode, Key
Modes == {"A", "B", "C", "D", "E", "F", "G"}

\* #[derive(ToPrimitive)]: the discriminant of the variant
ToUsize(mode) ==
    CASE mode = "A" -> 0
      [] mode = "B" -> 1
      [] mode = "C" -> 2
      [] mode = "D" -> 3
      [] mode = "E" -> 4
      [] mode = "F" -> 5
      [] mode = "G" -> 6

\* Mode::to_skip
ToSkip(mode) ==
    CASE mode = "A" -> 0
      [] mode = "B" -> 2
      [] mode = "C" -> 3
      [] mode = "D" -> 5
      [] mode = "E" -> 7
      [] mode = "F" -> 8
      [] mode = "G" -> 10

\* impl Default for Mode
ModeDefault == "A"

\* bool as usize
AsUsize(b) == IF b THEN 1 ELSE 0

\* ---------------------------------------------------------- FreqGenerator
\* #[derive(new)] struct FreqGenerator { freq, scale }: no argument is checked
FreqGeneratorNew(freq, scale) == [freq |-> freq, scale |-> scale]

\* a plausible slip: the value is returned before it is multiplied
FreqGeneratorNextStale(g) ==
    [it |-> [g EXCEPT !.freq = Mul(g.freq, StepRatio(g.scale))], out |-> Some(g.freq)]

\* impl Iterator for FreqGenerator: self.freq *= 2^(1/scale); Some(self.freq)
FreqGeneratorNext(g) ==
    LET f == Mul(g.freq, StepRatio(g.scale))
    IN [it |-> [g EXCEPT !.freq = f], out |-> Some(f)]

\* Iterator::nth on a FreqGenerator: n results dropped, then next()
RECURSIVE FreqGeneratorNth(_, _)
FreqGeneratorNth(g, n) ==
    IF n = 0 THEN FreqGeneratorNext(g)
    ELSE FreqGeneratorNth(FreqGeneratorNext(g).it, n - 1)

\* --------------------------------- the stream handed to ScaleGenerator::new
\* FreqGenerator, optionally under .skip(n) and then .take(n):
\* gen the generator, skip the n Skip still owes, take the n Take has left.
Stream(g) == [gen |-> g, skip |-> 0, hasTake |-> FALSE, take |-> 0]

\* Skip::next: the first call is nth(n), every later one next().
\* fgc counts the FreqGenerator::next calls made.
SkipNext(w) ==
    LET r == FreqGeneratorNth(w.gen, w.skip)
    IN [it |-> [w EXCEPT !.gen = r.it, !.skip = 0], out |-> r.out, fgc |-> w.skip + 1]

\* Take::next: None once n results were handed out, without asking further
StreamNext(w) ==
    IF w.hasTake /\ w.take = 0 THEN [it |-> w, out |-> None, fgc |-> 0]
    ELSE LET r == SkipNext(w)
         IN [it |-> [r.it EXCEPT !.take = IF w.hasTake THEN w.take - 1 ELSE 0],
             out |-> r.out, fgc |-> r.fgc]

\* --------------------------------------------------------- ScaleGenerator
\* the interval pattern of ScaleGenerator::new
Intervals == <<2, 2, 1, 2, 2, 2, 1>>

\* a plausible slip: the mode is not applied to the pattern
IntervalsNewUnrotated(mode) == [n |-> 0, idx |-> 0]

\* [..].iter().copied().cycle().skip(mode.to_usize().unwrap()):
\* idx the position of the cycle, n the elements Skip still owes
IntervalsNew(mode) == [n |-> ToUsize(mode), idx |-> 0]

\* a plausible slip: the element is read but the cycle is not advanced
IntervalsNextStuck(iv) ==
    LET at == (iv.idx + iv.n) % Len(Intervals)
    IN [it |-> [n |-> 0, idx |-> at], out |-> Intervals[at + 1]]

\* Skip<Cycle<..>>::next: drops the n owed elements, then yields one
IntervalsNext(iv) ==
    LET at == (iv.idx + iv.n) % Len(Intervals)
    IN [it |-> [n |-> 0, idx |-> (at + 1) % Len(Intervals)], out |-> Intervals[at + 1]]

\* a plausible slip: only the generator is kept, the .skip(n) on it is lost
ScaleGeneratorNewDropsSkip(frequencies, mode) ==
    [fg |-> [frequencies EXCEPT !.skip = 0], intervals |-> IntervalsNew(mode)]

\* ScaleGenerator::new
ScaleGeneratorNew(frequencies, mode) ==
    [fg |-> frequencies, intervals |-> IntervalsNew(mode)]

\* for _ in 1..s { self.fg.next()?; } with i iterations left:
\* ok is FALSE when a call returned None and `?` left the function;
\* inner counts the calls on the stream, fgc those on the FreqGenerator
RECURSIVE Discard(_, _)
Discard(w, i) ==
    IF i <= 0 THEN [it |-> w, ok |-> TRUE, inner |-> 0, fgc |-> 0]
    ELSE LET r == StreamNext(w)
         IN IF r.out = None
            THEN [it |-> r.it, ok |-> FALSE, inner |-> 1, fgc |-> r.fgc]
            ELSE LET d == Discard(r.it, i - 1)
                 IN [it |-> d.it, ok |-> d.ok, inner |-> d.inner + 1,
                     fgc |-> d.fgc + r.fgc]

\* a plausible slip: an exhausted discard is not propagated, the frequency
\* reached so far is returned
ScaleYieldPartial(iv, d, r) ==
    IF ~d.ok
    THEN [it |-> [fg |-> d.it, intervals |-> iv.it], out |-> Some(d.it.gen.freq),
          step |-> iv.out, inner |-> d.inner, fgc |-> d.fgc, sawNone |-> TRUE]
    ELSE [it |-> [fg |-> r.it, intervals |-> iv.it], out |-> r.out,
          step |-> iv.out, inner |-> d.inner + 1, fgc |-> d.fgc + r.fgc,
          sawNone |-> (r.out = None)]

\* the end of ScaleGenerator::next, with iv the interval read, d the discard
\* loop and r the last self.fg.next(): None when `?` left the loop, else r.
\* step, inner, fgc and sawNone report what the call did.
ScaleYield(iv, d, r) ==
    IF ~d.ok
    THEN [it |-> [fg |-> d.it, intervals |-> iv.it], out |-> None,
          step |-> iv.out, inner |-> d.inner, fgc |-> d.fgc, sawNone |-> TRUE]
    ELSE [it |-> [fg |-> r.it, intervals |-> iv.it], out |-> r.out,
          step |-> iv.out, inner |-> d.inner + 1, fgc |-> d.fgc + r.fgc,
          sawNone |-> (r.out = None)]

\* a plausible slip: the loop runs 0..s, one discard too many
ScaleGeneratorNextOneMore(sg) ==
    LET iv == IntervalsNext(sg.intervals)
    IN LET d == Discard(sg.fg, iv.out)
       IN ScaleYield(iv, d, StreamNext(d.it))

\* impl Iterator for ScaleGenerator: the step s is read and the cursor moved,
\* s - 1 results are dropped (leaving with None on exhaustion), then next()
ScaleGeneratorNext(sg) ==
    LET iv == IntervalsNext(sg.intervals)
    IN LET d == Discard(sg.fg, iv.out - 1)
       IN ScaleYield(iv, d, StreamNext(d.it))

\* Key::to_freq: FreqGenerator::new(A0, 12).skip(to_skip + sharp).next().unwrap()
KeyToFreq(note, sharp) ==
    SkipNext([Stream(FreqGeneratorNew(A0, 12)) EXCEPT
                 !.skip = ToSkip(note) + AsUsize(sharp)]).out[1]

\* ScaleGenerator::from_key
ScaleGeneratorFromKey(note, sharp, mode) ==
    ScaleGeneratorNew(Stream(FreqGeneratorNew(KeyToFreq(note, sharp), 12)), mode)

\* ------------------------------------------------------------------ state
VARIABLES
    stage,      \* what the caller holds: "start", "fg" (a stream), "sg"
    fg,         \* the stream: the caller's, then ScaleGenerator.fg
    intervals,  \* ScaleGenerator.intervals
    seed,       \* the freq the FreqGenerator was constructed with
    skip0,      \* the n of the .skip(n) applied to it
    mode,       \* the mode the ScaleGenerator was constructed with
    key,        \* the key of from_key, <<>> when new was used
    calls,      \* next() calls the caller made on what it holds
    fgCalls,    \* FreqGenerator::next calls made so far
    last,       \* what the latest call did: out, step, inner, sawNone
    hist        \* per ScaleGenerator call: fgCalls and the output

vars == <<stage, fg, intervals, seed, skip0, mode, key, calls, fgCalls, last, hist>>

NoCall == [out |-> None, step |-> 0, inner |-> 0, sawNone |-> FALSE]

Init ==
    /\ stage = "start"
    /\ fg = Stream(FreqGeneratorNew(A0, 12))
    /\ intervals = IntervalsNew(ModeDefault)
    /\ seed = A0
    /\ skip0 = 0
    /\ mode = ModeDefault
    /\ key = <<>>
    /\ calls = 0
    /\ fgCalls = 0
    /\ last = NoCall
    /\ hist = <<>>

InRange == fg.gen.freq = Inf \/ fg.gen.freq <= MaxFreq

\* FreqGenerator::new(freq, scale)
NewFreqGenerator(freq, scale) ==
    /\ stage = "start"
    /\ stage' = "fg"
    /\ fg' = Stream(FreqGeneratorNew(freq, scale))
    /\ seed' = freq
    /\ UNCHANGED <<intervals, skip0, mode, key, calls, fgCalls, last, hist>>

\* .skip(n) on the fresh FreqGenerator
DoSkip(n) ==
    /\ stage = "fg" /\ calls = 0 /\ fg.skip = 0 /\ ~fg.hasTake
    /\ fg' = [fg EXCEPT !.skip = n]
    /\ skip0' = n
    /\ UNCHANGED <<stage, intervals, seed, mode, key, calls, fgCalls, last, hist>>

\* .take(n) on the fresh stream
DoTake(n) ==
    /\ stage = "fg" /\ calls = 0 /\ ~fg.hasTake
    /\ fg' = [fg EXCEPT !.hasTake = TRUE, !.take = n]
    /\ UNCHANGED <<stage, intervals, seed, skip0, mode, key, calls, fgCalls, last, hist>>

\* the caller's next() on the stream
CallStreamNext ==
    /\ stage = "fg" /\ calls < MaxFgCalls /\ InRange
    /\ LET r == StreamNext(fg)
       IN /\ fg' = r.it
          /\ fgCalls' = fgCalls + r.fgc
          /\ last' = [out |-> r.out, step |-> 0, inner |-> 0, sawNone |-> (r.out = None)]
    /\ calls' = calls + 1
    /\ UNCHANGED <<stage, intervals, seed, skip0, mode, key, hist>>

\* ScaleGenerator::new(stream, mode)
NewScaleGenerator(m) ==
    /\ stage = "fg" /\ calls = 0
    /\ stage' = "sg"
    /\ LET sg == ScaleGeneratorNew(fg, m)
       IN fg' = sg.fg /\ intervals' = sg.intervals
    /\ mode' = m
    /\ hist' = <<[pos |-> 0, out |-> None]>>
    /\ UNCHANGED <<seed, skip0, key, calls, fgCalls, last>>

\* ScaleGenerator::from_key(Key::new(note, sharp), mode)
FromKey(note, sharp, m) ==
    /\ stage = "start"
    /\ stage' = "sg"
    /\ LET sg == ScaleGeneratorFromKey(note, sharp, m)
       IN fg' = sg.fg /\ intervals' = sg.intervals /\ seed' = sg.fg.gen.freq
    /\ mode' = m
    /\ key' = <<note, sharp>>
    /\ hist' = <<[pos |-> 0, out |-> None]>>
    /\ UNCHANGED <<skip0, calls, fgCalls, last>>

\* the caller's next() on the ScaleGenerator
CallScaleNext ==
    /\ stage = "sg" /\ calls < MaxSgCalls /\ InRange
    /\ LET r == ScaleGeneratorNext([fg |-> fg, intervals |-> intervals])
       IN /\ fg' = r.it.fg
          /\ intervals' = r.it.intervals
          /\ fgCalls' = fgCalls + r.fgc
          /\ last' = [out |-> r.out, step |-> r.step, inner |-> r.inner,
                      sawNone |-> r.sawNone]
          /\ hist' = Append(hist, [pos |-> fgCalls + r.fgc, out |-> r.out])
    /\ calls' = calls + 1
    /\ UNCHANGED <<stage, seed, skip0, mode, key>>

Next ==
    \/ \E f \in Seeds, n \in ToneCounts : NewFreqGenerator(f, n)
    \/ \E n \in 1..MaxSkip : DoSkip(n)
    \/ \E n \in 0..MaxTake : DoTake(n)
    \/ CallStreamNext
    \/ \E m \in Modes : NewScaleGenerator(m)
    \/ \E note \in Modes, sharp \in BOOLEAN, m \in Modes : FromKey(note, sharp, m)
    \/ CallScaleNext

Spec == Init /\ [][Next]_vars

\* ------------------------------------------------------------- references
\* the pitch k equal-tempered steps of a scale-tone octave above f
RECURSIVE Up(_, _, _)
Up(f, k, scale) == IF k = 0 THEN f ELSE Up(Mul(f, StepRatio(scale)), k - 1, scale)

\* f raised by j octaves
RECURSIVE Octaves(_, _)
Octaves(f, j) == IF j = 0 THEN f ELSE Octaves(2 * f, j - 1)

\* x is y up to the precision of the float type
Near(x, y) == x - y <= y \div 10000 /\ y - x <= y \div 10000

\* P[m mod 7] + ... + P[(m + n - 1) mod 7]
RECURSIVE SumP(_, _)
SumP(m, n) ==
    IF n = 0 THEN 0
    ELSE SumP(m, n - 1) + Intervals[((m + n - 1) % Len(Intervals)) + 1]

\* the n-th output (n >= 1) of ScaleGenerator::new(FreqGenerator::new(f, scale), m)
RECURSIVE RunScale(_, _)
RunScale(sg, n) ==
    IF n = 1 THEN ScaleGeneratorNext(sg).out
    ELSE RunScale(ScaleGeneratorNext(sg).it, n - 1)
NthUnshifted(f, scale, m, n) ==
    RunScale(ScaleGeneratorNew(Stream(FreqGeneratorNew(f, scale)), m), n)[1]

Scale == fg.gen.scale
Freq == fg.gen.freq
Endless == ~fg.hasTake

\* ----------------------------------------------------------------- claims
\* C1: the k-th FreqGenerator::next() call returns Some of the pitch k steps
\* above the seed (for tone count N > 0): never None, never the seed, a whole
\* number of octaves above it when N divides k, and for seed A0, N = 12 the
\* 48th element (skip(47) then next()) rounds to 440.
C1_KthCallIsKStepsAbove ==
    (stage = "fg" /\ Scale > 0 /\ Endless /\ calls >= 1) =>
        /\ fgCalls = skip0 + calls
        /\ last.out # None
        /\ last.out = Some(Up(seed, fgCalls, Scale))
        /\ last.out # Some(seed)
        /\ last.out[1] > seed
        /\ (fgCalls % Scale = 0 => Near(last.out[1], Octaves(seed, fgCalls \div Scale)))
        /\ (seed = A0 /\ Scale = 12 /\ fgCalls = 48 => Round(last.out[1]) = 440)

C1_Witness ==
    /\ stage = "fg" /\ seed = A0 /\ Scale = 12 /\ Endless /\ skip0 = 0
    /\ calls = 48 /\ fgCalls = 48
    /\ Round(last.out[1]) = 440

\* C2: over a never-ending stream the n-th ScaleGenerator::next() reads the
\* step s = P[(m + n - 1) mod 7], moves the cursor by one position, calls the
\* stream's next() exactly s times and returns the last result, which is the
\* stream's element number P[m mod 7] + ... + P[(m + n - 1) mod 7].
C2_NthCallReadsStepAndSkips ==
    (stage = "sg" /\ Endless /\ calls >= 1) =>
        /\ last.step = Intervals[((ToUsize(mode) + calls - 1) % 7) + 1]
        /\ (intervals.idx + intervals.n) % 7 = (ToUsize(mode) + calls) % 7
        /\ last.inner = last.step
        /\ fgCalls = skip0 + SumP(ToUsize(mode), calls)
        /\ last.out = Some(Freq)
        /\ Freq = Up(seed, skip0 + SumP(ToUsize(mode), calls), Scale)

C2_Witness ==
    /\ stage = "sg" /\ Endless /\ mode = "F" /\ skip0 = 2 /\ Scale = 6
    /\ calls = 9 /\ last.step = 1 /\ fgCalls = 2 + 15

\* C3: any 7 consecutive ScaleGenerator::next() calls advance the wrapped
\* 12-tone FreqGenerator by exactly 12 steps and double the frequency, for
\* every mode; with seed A0 and mode offset 0 the 28th element is 48 steps
\* above A0 and rounds to 440.
C3_SevenCallsAreOneOctave ==
    (stage = "sg" /\ Endless /\ Scale = 12) =>
        /\ \A i \in 1..(Len(hist) - 7) :
              /\ (i > 1 \/ skip0 = 0) => hist[i + 7].pos - hist[i].pos = 12
              /\ i > 1 => Near(hist[i + 7].out[1], 2 * hist[i].out[1])
              /\ (i = 1 /\ skip0 = 0) => Near(hist[i + 7].out[1], 2 * seed)
        /\ (seed = A0 /\ skip0 = 0 /\ mode = "A" /\ calls = 28 =>
               fgCalls = 48 /\ Round(last.out[1]) = 440)

C3_Witness ==
    /\ stage = "sg" /\ Endless /\ Scale = 12 /\ seed = A0 /\ skip0 = 0
    /\ mode = "A" /\ calls = 28 /\ Len(hist) = 29
    /\ hist[29].pos - hist[22].pos = 12

\* C4: over FreqGenerator::new(A0, 12) the 30th element (skip(4*7 - 1 + 2)
\* then next()) is 52 steps above A0 and rounds to 554 with mode offset 0,
\* and 51 steps above A0 and rounds to 523 with mode offset 5.
C4_ModeChangesIntervals ==
    (stage = "sg" /\ key = <<>> /\ Endless /\ seed = A0 /\ Scale = 12
        /\ skip0 = 0 /\ calls = 30) =>
        /\ ToUsize(mode) = 0 =>
              fgCalls = 52 /\ last.out = Some(Up(A0, 52, 12)) /\ Round(last.out[1]) = 554
        /\ ToUsize(mode) = 5 =>
              fgCalls = 51 /\ last.out = Some(Up(A0, 51, 12)) /\ Round(last.out[1]) = 523

C4_Witness ==
    /\ stage = "sg" /\ key = <<>> /\ Endless /\ seed = A0 /\ Scale = 12
    /\ skip0 = 0 /\ calls = 30 /\ ToUsize(mode) = 5
    /\ Round(last.out[1]) = 523

\* C5: the n-th output of ScaleGenerator::new(FreqGenerator::new(f, 12).skip(k), m)
\* is exactly k steps above the n-th output of
\* ScaleGenerator::new(FreqGenerator::new(f, 12), m); with f = A0, k = 5, m = 0
\* the 30th element is 57 steps above A0 and rounds to 740.
C5_KeyShiftOrthogonalToMode ==
    (stage = "sg" /\ key = <<>> /\ Endless /\ Scale = 12 /\ calls >= 1) =>
        /\ last.out = Some(Up(NthUnshifted(seed, 12, mode, calls), skip0, 12))
        /\ (seed = A0 /\ skip0 = 5 /\ ToUsize(mode) = 0 /\ calls = 30 =>
               fgCalls = 57 /\ Round(last.out[1]) = 740)

C5_Witness ==
    /\ stage = "sg" /\ key = <<>> /\ Endless /\ Scale = 12 /\ seed = A0
    /\ skip0 = 5 /\ ToUsize(mode) = 0 /\ calls = 30
    /\ Round(last.out[1]) = 740

\* C6: ScaleGenerator::from_key(Key::new(Mode::E, false), Mode::default())
\* yields as its 30th element (skip(4*7 + 1) then next()) the pitch that
\* rounds to 740, 57 steps above A0.
C6_FromKeyEYields740 ==
    (stage = "sg" /\ key = <<"E", FALSE>> /\ mode = ModeDefault /\ calls = 30) =>
        /\ Round(last.out[1]) = 740
        /\ last.out = Some(Up(A0, 57, 12))

\* C7: the frequency Key::to_freq hands to the scale stream is exactly
\* table[tonic] + (1 if sharp) twelve-tone steps above A0.
C7_ToFreqIsTonic ==
    (stage = "sg" /\ key # <<>>) =>
        seed = Up(A0, ToSkip(key[1]) + AsUsize(key[2]), 12)

\* C8: a ScaleGenerator::next() call during which the wrapped stream reports
\* exhaustion returns None, never a partially skipped value, and it returns
\* None only if a call on the wrapped stream made during it returned None.
C8_ExhaustionPropagates ==
    (stage = "sg" /\ calls >= 1) =>
        /\ last.sawNone => last.out = None
        /\ last.out = None => last.sawNone
        /\ last.out # None => last.inner = last.step /\ last.out = Some(Freq)

C8_Witness ==
    /\ stage = "sg" /\ calls >= 2 /\ fg.hasTake
    /\ last.sawNone /\ last.out = None
    /\ last.step = 2 /\ last.inner = 1 /\ fgCalls >= 1

\* C9: a tone count of zero is rejected at construction: no stream on which
\* next() is called has tone_count = 0, and no next() divides by zero.
C9_ZeroToneCountRejected ==
    fgCalls >= 1 => (Scale # 0 /\ Freq # Inf)

\* the shift from C / ionian of the doc of ScaleGenerator::new: 1 is D, 2 is E
ShiftFromIonian(m) == IF m = "D" THEN 1 ELSE 2

\* C10: passing Mode::D starts the interval cursor at rotation offset 1 (steps
\* 2,1,2,2,2,1,2 repeating) and passing Mode::E starts it at offset 2.
C10_ModeIsShiftFromIonian ==
    (stage = "sg" /\ mode \in {"D", "E"} /\ calls >= 1) =>
        last.step = Intervals[((ShiftFromIonian(mode) + calls - 1) % 7) + 1]

====
